---- MODULE Spec2Model ----
(***************************************************************************)
(* A model of orbtk's WidgetManager (src/src/application/widget_manager.rs)*)
(* and of the slider widget's helpers (src/crates/widgets/src/slider.rs).  *)
(*                                                                         *)
(* WidgetManager::new registers two systems (Layout, priority 0; Render,   *)
(* priority 1, with a sort and a filter closure).  WidgetManager::root     *)
(* expands a widget template into entities of the World and nodes of the   *)
(* Tree.  WidgetManager::run recomputes the filtered and sorted views and  *)
(* runs the systems.  World, Tree, LayoutSystem and RenderSystem are not   *)
(* part of the two source files; they are modelled from the design         *)
(* document (spec.md, sections 4.2 to 4.5).                                *)
(*                                                                         *)
(* Option<T> is modelled as a sequence: <<>> is None, <<x>> is Some(x).    *)
(***************************************************************************)
EXTENDS Integers, Sequences, FiniteSets, TLC

\* ------------------------------------------------------------- bounds

\* The largest number of entities the manager creates in a behaviour.
MaxEntities == 4

\* The largest number of run() calls in a behaviour.
MaxRuns == 2

\* The largest number of entities when widgets override the layout function.
MaxCustomEntities == 2

\* The largest track width of a slider, in pixels.
MaxWidth == 3

\* The largest mouse x coordinate, in pixels.
MaxMouse == 5

\* The largest absolute value of a slider's minimum and maximum, in halves.
MaxRange == 2

\* The largest number of update_post_layout calls in a behaviour.
MaxUpdates == 2

\* ---------------------------------------------------------- constants

\* .with_priority(0) of the LayoutSystem.
LayoutPriority == 0

\* .with_priority(1) of the RenderSystem.
RenderPriority == 1

\* Rect::new(10, 10, 200, 50), the geometry every entity starts with.
DefaultRect == [x |-> 10, y |-> 10, width |-> 200, height |-> 50]

\* The constraints a run hands to the root of the tree.
Constraints ==
    { [min_width |-> 0, max_width |-> 200, min_height |-> 0, max_height |-> 50],
      [min_width |-> 30, max_width |-> 200, min_height |-> 20, max_height |-> 50] }

\* ------------------------------------------------------------ helpers

Range(s) == {s[i] : i \in DOMAIN s}

\* HashMap::insert on a map modelled as a function.
Put(m, k, v) == [x \in (DOMAIN m) \cup {k} |-> IF x = k THEN v ELSE m[x]]

EmptyMap == [x \in {} |-> 0]

\* ------------------------------------------------------------ widgets

\* A widget: the properties it declares (a Drawable marker or not, a Layout
\* overriding the default one or not) and its template.
Widget(l, d, k, cs) == [layout |-> l, drawable |-> d, kind |-> k, children |-> cs]

RECURSIVE WidgetsOfSize(_, _)
RECURSIVE ChildSeqs(_, _)
\* The widgets whose template has exactly n nodes, with layouts drawn from L.
WidgetsOfSize(n, L) ==
    IF n < 1 THEN {}
    ELSE LET k == n - 1
             shapes == IF k = 0
                       THEN {<<"Leaf", <<>>>>, <<"Multi", <<>>>>}
                       ELSE {<<"Single", <<c>>>> : c \in WidgetsOfSize(k, L)}
                            \cup {<<"Multi", cs>> : cs \in ChildSeqs(k, L)}
         IN  {Widget(l, d, s[1], s[2]) : l \in L, d \in BOOLEAN, s \in shapes}

\* The sequences of widgets with k nodes in total.
ChildSeqs(k, L) ==
    IF k = 0 THEN {<<>>}
    ELSE UNION { {<<w>> \o rest : w \in WidgetsOfSize(j, L), rest \in ChildSeqs(k - j, L)}
                 : j \in 1..k }

RECURSIVE Declared(_)
\* What a widget declares, whatever the variant of its template: its
\* properties and its children in order.
Declared(w) ==
    [layout |-> w.layout, drawable |-> w.drawable,
     children |-> [i \in DOMAIN w.children |-> Declared(w.children[i])]]

\* Widgets that keep the default layout function, by number of nodes.
DefaultWidgets == [n \in 1..MaxEntities |-> WidgetsOfSize(n, {"default"})]

\* Widgets that may override the layout function with one that requests the
\* entity itself, or the first entity created (the root of the tree).
CustomWidgets ==
    [n \in 1..MaxCustomEntities |-> WidgetsOfSize(n, {"default", "RequestSelf", "RequestRoot"})]

\* --------------------------------------------------------------- Tree

EmptyTree == [root |-> <<>>, parent |-> EmptyMap, children |-> EmptyMap]

Nodes(t) == DOMAIN t.children

\* Tree::register_node: a new parentless node; the first one becomes the root.
RegisterNode(t, e) ==
    [root |-> IF t.root = <<>> THEN <<e>> ELSE t.root,
     parent |-> Put(t.parent, e, <<>>),
     children |-> Put(t.children, e, <<>>)]

\* Tree::append_child: the tree after the call and the error, "" for Ok.
AppendChild(t, p, c) ==
    IF p \notin Nodes(t) \/ c \notin Nodes(t)
    THEN [tree |-> t, err |-> "UnknownEntity"]
    ELSE IF t.parent[c] # <<>>
    THEN [tree |-> t, err |-> "AlreadyParented"]
    ELSE [tree |-> [t EXCEPT !.parent[c] = <<p>>, !.children[p] = Append(@, c)],
          err |-> ""]

RECURSIVE IsAncestor(_, _, _, _)
\* a is a proper ancestor of e, following at most n parent links.
IsAncestor(t, a, e, n) ==
    /\ n > 0
    /\ t.parent[e] # <<>>
    /\ \/ t.parent[e][1] = a
       \/ IsAncestor(t, a, t.parent[e][1], n - 1)

\* -------------------------------------------------------------- World

\* World::create_entity: the next handle, never reused.
CreateEntity(w) == Cardinality(DOMAIN w)

\* A faulty variant of DefaultComponents: the EntityId is not attached.
DefaultComponentsNoId(counter) ==
    [Rect |-> DefaultRect, Layout |-> "default", EntityId |-> <<>>, Drawable |-> FALSE]

\* The components root() attaches before the widget's properties:
\* Rect, the default Layout and EntityId(entity_counter).
DefaultComponents(counter) ==
    [Rect |-> DefaultRect, Layout |-> "default", EntityId |-> <<counter>>, Drawable |-> FALSE]

\* for property in widget.properties() { entity_builder.with_box(property) }
WithProperties(comps, widget) ==
    [comps EXCEPT !.Drawable = widget.drawable, !.Layout = widget.layout]

\* ------------------------------------------------- the layout function

SizeResult(size, children_pos) ==
    [kind |-> "Size", size |-> size, child |-> <<>>, bc |-> <<>>, children_pos |-> children_pos]

RequestChild(child, bc, children_pos) ==
    [kind |-> "RequestChild", size |-> <<>>, child |-> <<child>>, bc |-> <<bc>>,
     children_pos |-> children_pos]

\* children[0] of an empty slice: the closure panics.
Panic(children_pos) ==
    [kind |-> "Panic", size |-> <<>>, child |-> <<>>, bc |-> <<>>, children_pos |-> children_pos]

\* A faulty variant of DefaultLayout: the forced-size branch does not record
\* the child's position.
DefaultLayoutNoInsert(entity, bc, children, children_pos, size) ==
    IF size # <<>>
    THEN IF children = <<>> THEN Panic(children_pos)
         ELSE SizeResult(size[1], children_pos)
    ELSE IF Len(children) = 0
         THEN SizeResult(<<bc.min_width, bc.min_height>>, children_pos)
         ELSE RequestChild(children[1], bc, children_pos)

\* The closure root() attaches to every entity.  size is the forced size.
DefaultLayout(entity, bc, children, children_pos, size) ==
    IF size # <<>>
    THEN IF children = <<>> THEN Panic(children_pos)
         ELSE SizeResult(size[1], Put(children_pos, children[1], <<0, 0>>))
    ELSE IF Len(children) = 0
         THEN SizeResult(<<bc.min_width, bc.min_height>>, children_pos)
         ELSE RequestChild(children[1], bc, children_pos)

\* Layout::layout of an entity: the default closure, or the widget's own.
LayoutFn(layout, entity, bc, children, children_pos, size) ==
    CASE layout = "RequestSelf" -> RequestChild(entity, bc, children_pos)
      [] layout = "RequestRoot" -> RequestChild(0, bc, children_pos)
      [] OTHER -> DefaultLayout(entity, bc, children, children_pos, size)

\* ------------------------------------------------------------- expand

\* A faulty variant of AppendTarget: the parent argument of expand.
AppendTargetParent(entity, parent) == parent

\* The first argument of append_child in expand: the entity just created.
AppendTarget(entity, parent) == entity

\* A faulty variant of NextCounter: the counter is not advanced.
NextCounterSame(counter) == counter

\* *entity_counter += 1.
NextCounter(counter) == counter + 1

RECURSIVE expand(_, _, _)
RECURSIVE expandChildren(_, _, _, _, _)
\* fn expand(world, tree, widget, parent, entity_counter) -> Entity.
\* st holds world, tree and entity_counter; append_errors counts the Err
\* results of append_child, which expand drops (let _result = ...).
expand(st, widget, parent) ==
    LET entity == CreateEntity(st.world)
        comps == WithProperties(DefaultComponents(st.entity_counter), widget)
        st1 == [st EXCEPT !.world = Put(@, entity, comps),
                          !.entity_counter = NextCounter(@),
                          !.tree = RegisterNode(@, entity)]
        st2 == IF widget.kind \in {"Single", "Multi"}
               THEN expandChildren(st1, entity, widget.children, parent, 1)
               ELSE st1
    IN  [st |-> st2, entity |-> entity]

\* The loop over the template's children (one child for Template::Single).
expandChildren(st, entity, children, parent, i) ==
    IF i > Len(children) THEN st
    ELSE LET r == expand(st, children[i], parent)
             a == AppendChild(r.st.tree, AppendTarget(entity, parent), r.entity)
         IN  expandChildren([r.st EXCEPT !.tree = a.tree,
                                         !.append_errors = @ + (IF a.err = "" THEN 0 ELSE 1)],
                            entity, children, parent, i + 1)

\* -------------------------------------------------- the two systems

\* The systems WidgetManager::new registers, in registration order.
Systems ==
    << [name |-> "Layout", priority |-> LayoutPriority],
       [name |-> "Render", priority |-> RenderPriority] >>

RECURSIVE InsertByPriority(_, _)
InsertByPriority(sys, s) ==
    IF s = <<>> THEN <<sys>>
    ELSE IF sys.priority < Head(s).priority THEN <<sys>> \o s
    ELSE <<Head(s)>> \o InsertByPriority(sys, Tail(s))

RECURSIVE SortByPriority(_)
\* World::run executes the systems in ascending priority; ties keep the
\* registration order.
SortByPriority(s) ==
    IF s = <<>> THEN <<>>
    ELSE InsertByPriority(s[Len(s)], SortByPriority(SubSeq(s, 1, Len(s) - 1)))

Schedule == SortByPriority(Systems)

\* A faulty variant of RenderSort: the comparison is reversed.
RenderSortReversed(comp_a, comp_b) ==
    IF comp_a.EntityId = <<>> THEN <<>>
    ELSE IF comp_b.EntityId = <<>> THEN <<>>
    ELSE IF comp_a.EntityId[1] < comp_b.EntityId[1] THEN <<"Greater">>
    ELSE IF comp_a.EntityId[1] > comp_b.EntityId[1] THEN <<"Less">>
    ELSE <<"Equal">>

\* The with_sort closure: None unless both entities carry an EntityId,
\* else Some(id_a.0.cmp(&id_b.0)).
RenderSort(comp_a, comp_b) ==
    IF comp_a.EntityId = <<>> THEN <<>>
    ELSE IF comp_b.EntityId = <<>> THEN <<>>
    ELSE IF comp_a.EntityId[1] < comp_b.EntityId[1] THEN <<"Less">>
    ELSE IF comp_a.EntityId[1] > comp_b.EntityId[1] THEN <<"Greater">>
    ELSE <<"Equal">>

\* A faulty variant of RenderFilter: every entity is admitted.
RenderFilterAll(comp) == TRUE

\* The with_filter closure: true iff one of the components is a Drawable.
RenderFilter(comp) == comp.Drawable

RECURSIVE InsertSorted(_, _, _)
InsertSorted(w, e, s) ==
    IF s = <<>> THEN <<e>>
    ELSE IF RenderSort(w[e], w[Head(s)]) = <<"Less">> THEN <<e>> \o s
    ELSE <<Head(s)>> \o InsertSorted(w, e, Tail(s))

RECURSIVE SortView(_, _)
SortView(w, S) ==
    IF S = {} THEN <<>>
    ELSE LET e == CHOOSE x \in S : \A y \in S : y <= x
         IN  InsertSorted(w, e, SortView(w, S \ {e}))

\* World::apply_filter_and_sort for the Render system: the entities the
\* filter admits, ordered by the comparator; OrderingError when the
\* comparator gives no ordering for two admitted entities.
ApplyFilterAndSort(w) ==
    LET admitted == {e \in DOMAIN w : RenderFilter(w[e])}
    IN  IF \E a \in admitted, b \in admitted : a # b /\ RenderSort(w[a], w[b]) = <<>>
        THEN [view |-> <<>>, err |-> "OrderingError"]
        ELSE [view |-> SortView(w, admitted), err |-> ""]

\* -------------------------------------------------------------- state

VARIABLES
    entity_counter,  \* WidgetManager.entity_counter
    world,           \* WidgetManager.world: entity -> components
    tree,            \* WidgetManager.tree
    view,            \* the Render system's filtered and sorted entities
    pc,              \* "idle", or the position inside run()
    sysIdx,          \* the index in Schedule of the system to execute
    stack,           \* the Layout pass's active request chain
    children_pos,    \* the Layout pass's shared position map
    draws,           \* the draw calls the Render pass issued in this run
    outcome,         \* how the last run() ended
    runs,            \* the number of run() calls
    templates,       \* history: what the widget of each root() call declares, and its entity
    append_errors,   \* history: the append_child errors expand dropped
    sized,           \* history: entity -> sizes recorded by this run's Layout pass
    trace,           \* history: the phases of this run, in order
    slider,          \* a Slider widget: its SliderState, properties and children
    call,            \* the last call of a helper function: arguments and result
    log              \* history: what has been done to the Slider

vars == << entity_counter, world, tree, view, pc, sysIdx, stack, children_pos,
           draws, outcome, runs, templates, append_errors, sized, trace >>

frameVars == << view, pc, sysIdx, stack, children_pos, draws, outcome, runs, sized, trace >>

\* The variables WidgetManager does not touch.
widgetVars == << slider, call, log >>

allVars == << vars, widgetVars >>

\* No Slider has been built.
NoSlider == [phase |-> "absent"]

\* No helper function has been called.
NoCall == [fn |-> "none", args |-> <<>>, result |-> <<>>]

\* Nothing has been done to the Slider.
NoLog ==
    [ inited |-> FALSE,       \* init has been called
      thumb_found |-> <<>>,   \* what entity_of_child("thumb") returned to init
      track_found |-> <<>>,   \* what entity_of_child("track") returned to init
      updates |-> 0,          \* the number of update_post_layout calls
      moves |-> 0,            \* the mouse moves since the last update, at most 2
      last_x |-> <<>>,        \* the mouse_x of the last mouse move since the last update
      used |-> 0,             \* the value of moves when the last update began
      after_drop |-> "none" ] \* "dropped": an update discarded a move of the
                              \* released thumb; then "pressed": the thumb was
                              \* pressed; then "updated": an update ran

Count(e) == IF e \in DOMAIN sized THEN sized[e] ELSE 0

\* WidgetManager::new.
ManagerInit ==
    /\ entity_counter = 0
    /\ world = EmptyMap
    /\ tree = EmptyTree
    /\ view = <<>>
    /\ pc = "idle"
    /\ sysIdx = 1
    /\ stack = <<>>
    /\ children_pos = EmptyMap
    /\ draws = <<>>
    /\ outcome = "none"
    /\ runs = 0
    /\ templates = <<>>
    /\ append_errors = 0
    /\ sized = EmptyMap
    /\ trace = <<>>

\* A WidgetManager alone: no Slider, no helper called.
Init ==
    /\ ManagerInit
    /\ slider = NoSlider
    /\ call = NoCall
    /\ log = NoLog

\* WidgetManager::root(widget).  The widgets offered are those that keep the
\* number of entities within the bound.
Root(widget) ==
    /\ pc = "idle"
    /\ LET r == expand([world |-> world, tree |-> tree,
                        entity_counter |-> entity_counter,
                        append_errors |-> append_errors], widget, 0)
       IN  /\ world' = r.st.world
           /\ tree' = r.st.tree
           /\ entity_counter' = r.st.entity_counter
           /\ append_errors' = r.st.append_errors
           /\ templates' = Append(templates, [widget |-> Declared(widget), entity |-> r.entity])
    /\ UNCHANGED frameVars
    /\ UNCHANGED widgetVars

\* WidgetManager::run, first statement: self.world.apply_filter_and_sort().
RunBegin ==
    /\ pc = "idle"
    /\ runs < MaxRuns
    /\ runs' = runs + 1
    /\ LET fs == ApplyFilterAndSort(world)
       IN  /\ view' = fs.view
           /\ IF fs.err # ""
              THEN /\ pc' = "idle"
                   /\ outcome' = fs.err
                   /\ trace' = <<>>
              ELSE /\ pc' = "system"
                   /\ outcome' = "running"
                   /\ trace' = <<"FilterSort">>
    /\ sysIdx' = 1
    /\ stack' = <<>>
    /\ children_pos' = EmptyMap
    /\ draws' = <<>>
    /\ sized' = EmptyMap
    /\ UNCHANGED << entity_counter, world, tree, templates, append_errors >>
    /\ UNCHANGED widgetVars

\* World::run reaches the Layout system: the pass starts at the tree's root
\* with the frame's constraints and no forced size.
LayoutStart(bc) ==
    /\ pc = "system"
    /\ sysIdx <= Len(Schedule)
    /\ Schedule[sysIdx].name = "Layout"
    /\ IF tree.root = <<>>
       THEN /\ trace' = trace \o <<"LayoutStart", "LayoutEnd">>
            /\ sysIdx' = sysIdx + 1
            /\ UNCHANGED << pc, stack >>
       ELSE /\ trace' = Append(trace, "LayoutStart")
            /\ stack' = << [entity |-> tree.root[1], bc |-> bc, size |-> <<>>] >>
            /\ pc' = "layout"
            /\ UNCHANGED sysIdx
    /\ UNCHANGED << entity_counter, world, tree, view, children_pos, draws, outcome,
                    runs, templates, append_errors, sized >>
    /\ UNCHANGED widgetVars

\* A faulty variant of OnChain: the chain is not consulted.
OnChainNever(chain, child) == FALSE

\* The requested entity is on the active request chain.
OnChain(chain, child) == \E i \in DOMAIN chain : chain[i].entity = child

\* One invocation of the layout function of the entity on top of the chain,
\* and what the pass does with its result.
LayoutStep ==
    /\ pc = "layout"
    /\ stack # <<>>
    /\ LET top == stack[Len(stack)]
           e == top.entity
           rest == SubSeq(stack, 1, Len(stack) - 1)
           res == LayoutFn(world[e].Layout, e, top.bc, tree.children[e],
                           children_pos, top.size)
       IN  /\ children_pos' = res.children_pos
           /\ CASE res.kind = "Size" ->
                     /\ world' = [world EXCEPT ![e].Rect.width = res.size[1],
                                               ![e].Rect.height = res.size[2]]
                     /\ sized' = Put(sized, e, Count(e) + 1)
                     /\ IF rest = <<>>
                        THEN /\ stack' = <<>>
                             /\ pc' = "system"
                             /\ sysIdx' = sysIdx + 1
                             /\ trace' = Append(trace, "LayoutEnd")
                        ELSE /\ stack' = [rest EXCEPT ![Len(rest)].size = <<res.size>>]
                             /\ UNCHANGED << pc, sysIdx, trace >>
                     /\ UNCHANGED outcome
                [] res.kind = "RequestChild" ->
                     /\ IF OnChain(stack, res.child[1])
                        THEN /\ outcome' = "LayoutCycle"
                             /\ pc' = "idle"
                             /\ stack' = <<>>
                        ELSE /\ stack' = Append(stack, [entity |-> res.child[1],
                                                         bc |-> res.bc[1], size |-> <<>>])
                             /\ UNCHANGED << pc, outcome >>
                     /\ UNCHANGED << world, sized, sysIdx, trace >>
                [] OTHER ->
                     /\ outcome' = "Panic"
                     /\ pc' = "idle"
                     /\ stack' = <<>>
                     /\ UNCHANGED << world, sized, sysIdx, trace >>
    /\ UNCHANGED << entity_counter, tree, view, draws, runs, templates, append_errors >>
    /\ UNCHANGED widgetVars

\* World::run reaches the Render system.
RenderStart ==
    /\ pc = "system"
    /\ sysIdx <= Len(Schedule)
    /\ Schedule[sysIdx].name = "Render"
    /\ pc' = "render"
    /\ trace' = Append(trace, "RenderStart")
    /\ UNCHANGED << entity_counter, world, tree, view, sysIdx, stack, children_pos,
                    draws, outcome, runs, templates, append_errors, sized >>
    /\ UNCHANGED widgetVars

\* The Render pass draws the next entity of its view with the entity's Rect.
RenderStep ==
    /\ pc = "render"
    /\ Len(draws) < Len(view)
    /\ LET e == view[Len(draws) + 1]
       IN  draws' = Append(draws, [entity |-> e, rect |-> world[e].Rect])
    /\ UNCHANGED << entity_counter, world, tree, view, pc, sysIdx, stack, children_pos,
                    outcome, runs, templates, append_errors, sized, trace >>
    /\ UNCHANGED widgetVars

\* The Render pass has drawn its whole view.
RenderEnd ==
    /\ pc = "render"
    /\ Len(draws) = Len(view)
    /\ pc' = "system"
    /\ sysIdx' = sysIdx + 1
    /\ trace' = Append(trace, "RenderEnd")
    /\ UNCHANGED << entity_counter, world, tree, view, stack, children_pos, draws,
                    outcome, runs, templates, append_errors, sized >>
    /\ UNCHANGED widgetVars

\* World::run has executed every system: run() returns, and the records of
\* the frame (position map, draw calls, histories) are dropped.
RunEnd ==
    /\ pc = "system"
    /\ sysIdx > Len(Schedule)
    /\ pc' = "idle"
    /\ outcome' = "ok"
    /\ children_pos' = EmptyMap
    /\ draws' = <<>>
    /\ sized' = EmptyMap
    /\ trace' = <<>>
    /\ UNCHANGED << entity_counter, world, tree, view, sysIdx, stack, runs,
                    templates, append_errors >>
    /\ UNCHANGED widgetVars

RunSteps ==
    \/ RunBegin
    \/ \E bc \in Constraints : LayoutStart(bc)
    \/ LayoutStep
    \/ RenderStart
    \/ RenderStep
    \/ RenderEnd
    \/ RunEnd

\* Every widget keeps the default layout function.
Next ==
    \/ \E n \in 1..(MaxEntities - entity_counter) : \E widget \in DefaultWidgets[n] : Root(widget)
    \/ RunSteps

Spec == Init /\ [][Next]_vars

\* Widgets may override the layout function.
NextCustom ==
    \/ \E n \in 1..(MaxCustomEntities - entity_counter) : \E widget \in CustomWidgets[n] : Root(widget)
    \/ RunSteps

SpecCustom == Init /\ [][NextCustom]_vars

\* ------------------------------------------------- slider helpers

(***************************************************************************)
(* The slider's numbers are f64.  Widths and coordinates are modelled as   *)
(* integers (whole pixels), on which f64 arithmetic is exact and round()   *)
(* changes nothing.  minimum and maximum are modelled in halves (the       *)
(* integer 3 is 1.5), so that a range with a fractional span exists.       *)
(* The quotient of calculate_value is computed exactly and then rounded    *)
(* as f64::round does, half away from zero.                                *)
(***************************************************************************)

MaxOf(a, b) == IF a >= b THEN a ELSE b

MinOf(a, b) == IF a <= b THEN a ELSE b

\* f64::round of n / d for d > 0: to the nearest integer, half away from zero.
RoundDiv(n, d) ==
    IF n >= 0 THEN (2 * n + d) \div (2 * d)
    ELSE 0 - ((2 * (0 - n) + d) \div (2 * d))

\* A faulty variant of calculate_thumb_x: the lower clamp is missing.
calculate_thumb_x_no_floor(mouse_x, thumb_width, slider_x, track_width) ==
    MinOf(mouse_x - slider_x - thumb_width, track_width - thumb_width)

\* fn calculate_thumb_x(mouse_x, thumb_width, slider_x, track_width).
calculate_thumb_x(mouse_x, thumb_width, slider_x, track_width) ==
    MinOf(MaxOf(mouse_x - slider_x - thumb_width, 0), track_width - thumb_width)

\* A faulty variant of calculate_value: the minimum is added to the result.
calculate_value_from_minimum(thumb_x, minimum, maximum, thumb_width, track_width) ==
    RoundDiv(thumb_x * (maximum - minimum) + minimum * (track_width - thumb_width),
             2 * (track_width - thumb_width))

\* fn calculate_value(thumb_x, minimum, maximum, thumb_width, track_width),
\* minimum and maximum in halves, the result in units.
calculate_value(thumb_x, minimum, maximum, thumb_width, track_width) ==
    RoundDiv(thumb_x * (maximum - minimum), 2 * (track_width - thumb_width))

\* The assertions of tests::test_calculate_thumb_x and
\* tests::test_calculate_value hold of the two operators.
SliderTests ==
    /\ calculate_thumb_x(0 - 1000, 32, 0, 100) = 0
    /\ calculate_thumb_x(0, 32, 0, 100) = 0
    /\ calculate_thumb_x(50, 32, 0, 100) = 18
    /\ calculate_thumb_x(68, 32, 0, 100) = 36
    /\ calculate_thumb_x(100, 32, 0, 100) = 68
    /\ calculate_thumb_x(1000, 32, 0, 100) = 68
    /\ calculate_value(0, 0, 200, 32, 100) = 0
    /\ calculate_value(34, 0, 200, 32, 100) = 50
    /\ calculate_value(68, 0, 200, 32, 100) = 100
    /\ calculate_value(0, 0 - 100, 100, 32, 100) = 0
    /\ calculate_value(34, 0 - 100, 100, 32, 100) = 50
    /\ calculate_value(68, 0 - 100, 100, 32, 100) = 100

\* ------------------------------------------- calls of the pure functions

\* Children lists and position maps handed to a layout function.
ChildLists == { <<>>, <<1>>, <<1, 2>>, <<2, 1>> }

PositionMaps == { EmptyMap, Put(EmptyMap, 1, <<5, 5>>), Put(EmptyMap, 2, <<5, 5>>) }

ForcedSizes == { <<>>, << <<7, 9>> >> }

\* calculate_thumb_x on integer arguments with 0 <= thumb_width <= track_width.
CallThumbX ==
    /\ \E track_width \in 0..MaxWidth, slider_x \in 0..1 :
       \E thumb_width \in 0..track_width, mouse_x \in (0 - 2)..MaxMouse :
          call' = [fn |-> "calculate_thumb_x",
                   args |-> [mouse_x |-> mouse_x, thumb_width |-> thumb_width,
                             slider_x |-> slider_x, track_width |-> track_width],
                   result |-> calculate_thumb_x(mouse_x, thumb_width, slider_x, track_width)]
    /\ UNCHANGED << vars, slider, log >>

\* calculate_value with thumb_width < track_width, minimum <= maximum and
\* the thumb offset inside the track.
CallValue ==
    /\ \E track_width \in 1..MaxWidth, minimum \in (0 - MaxRange)..MaxRange :
       \E thumb_width \in 0..(track_width - 1), maximum \in minimum..MaxRange :
       \E thumb_x \in 0..(track_width - thumb_width) :
          call' = [fn |-> "calculate_value",
                   args |-> [thumb_x |-> thumb_x, minimum |-> minimum, maximum |-> maximum,
                             thumb_width |-> thumb_width, track_width |-> track_width],
                   result |-> calculate_value(thumb_x, minimum, maximum,
                                              thumb_width, track_width)]
    /\ UNCHANGED << vars, slider, log >>

\* The default layout closure on any constraints, children list, position
\* map and forced size.
CallLayout ==
    /\ \E bc \in Constraints, children \in ChildLists,
          pos \in PositionMaps, size \in ForcedSizes :
          call' = [fn |-> "layout",
                   args |-> [bc |-> bc, children |-> children, children_pos |-> pos,
                             size |-> size],
                   result |-> DefaultLayout(0, bc, children, pos, size)]
    /\ UNCHANGED << vars, slider, log >>

NextCalls ==
    \/ CallThumbX
    \/ CallValue
    \/ CallLayout

\* The helper functions called on arguments drawn from bounded sets.
SpecCalls == Init /\ [][NextCalls]_allVars

\* ------------------------------------------------------- the Slider

\* The mouse x coordinates of the model.
MouseXs == (0 - 1)..MaxMouse

\* What the lookups of init can return: nothing, or the entity of the
\* template's Grid (the Slider's first child) and of its Button (created
\* after the Grid and its Container).  The Slider's children are created
\* after it, so none of them is Entity::default().
TrackLookups == { <<>>, << 1 >> }
ThumbLookups == { <<>>, << 3 >> }

\* Slider::template and the builder: a Slider with its properties set, its
\* children laid out, and a SliderState::default().
NewSliders ==
    { [ phase |-> "new",
        action |-> <<>>, value |-> 0, thumb |-> 0, track |-> 0,
        minimum |-> minimum, maximum |-> maximum,
        thumb_width |-> thumb_width, track_width |-> track_width,
        slider_x |-> slider_x,
        margin_left |-> 0, pressed |-> FALSE, events |-> 0 ] :
      minimum \in (0 - MaxRange)..MaxRange, maximum \in (0 - MaxRange)..MaxRange,
      thumb_width \in 0..MaxWidth, track_width \in 1..MaxWidth, slider_x \in 0..1 }

\* A faulty variant of SliderState::action: a pending action is kept.
action_keep_first(s, a) ==
    IF s.action = <<>> THEN [s EXCEPT !.action = << a >>] ELSE s

\* SliderState::action.
action(s, a) ==
    [s EXCEPT !.action = << a >>]

\* A faulty variant of SliderState::init: a missing track is not an error.
init_default_track(s, thumb, track) ==
    IF thumb = <<>> THEN [s EXCEPT !.phase = "failed"]
    ELSE IF track = <<>> THEN [s EXCEPT !.thumb = thumb[1], !.phase = "ready"]
    ELSE [s EXCEPT !.thumb = thumb[1], !.track = track[1], !.phase = "ready"]

\* SliderState::init, given what the two lookups return: expect() panics
\* on None, the first one before anything is assigned.
init(s, thumb, track) ==
    IF thumb = <<>> THEN [s EXCEPT !.phase = "failed"]
    ELSE IF track = <<>> THEN [s EXCEPT !.thumb = thumb[1], !.phase = "failed"]
    ELSE [s EXCEPT !.thumb = thumb[1], !.track = track[1], !.phase = "ready"]

\* A faulty variant of update_post_layout: the action is cleared only when
\* it was applied.
update_post_layout_keep_pending(s) ==
    IF s.action = <<>> THEN s
    ELSE IF s.pressed
         THEN LET thumb_x == calculate_thumb_x(s.action[1], s.thumb_width,
                                               s.slider_x, s.track_width)
              IN  [s EXCEPT !.margin_left = thumb_x,
                            !.value = calculate_value(thumb_x, s.minimum, s.maximum,
                                                      s.thumb_width, s.track_width),
                            !.events = @ + 1,
                            !.action = <<>>]
         ELSE s

\* SliderState::update_post_layout.
update_post_layout(s) ==
    IF s.action = <<>> THEN s
    ELSE IF s.pressed
         THEN LET thumb_x == calculate_thumb_x(s.action[1], s.thumb_width,
                                               s.slider_x, s.track_width)
              IN  [s EXCEPT !.margin_left = thumb_x,
                            !.value = calculate_value(thumb_x, s.minimum, s.maximum,
                                                      s.thumb_width, s.track_width),
                            !.events = @ + 1,
                            !.action = <<>>]
         ELSE [s EXCEPT !.action = <<>>]

\* A Slider is built: minimum <= maximum, and the track is wider than the thumb.
InitSlider ==
    /\ ManagerInit
    /\ slider \in { s \in NewSliders :
                      s.minimum <= s.maximum /\ s.thumb_width < s.track_width }
    /\ call = NoCall
    /\ log = NoLog

\* The framework calls init once, before it delivers events to the Slider;
\* the lookups find a child or nothing.
SliderInit ==
    /\ slider.phase = "new"
    /\ \E thumb \in ThumbLookups, track \in TrackLookups :
          /\ slider' = init(slider, thumb, track)
          /\ log' = [log EXCEPT !.inited = TRUE, !.thumb_found = thumb,
                                !.track_found = track]
    /\ UNCHANGED << vars, call >>

\* The on_mouse_move handler of the template.
MouseMove ==
    /\ slider.phase = "ready"
    /\ \E mouse_x \in MouseXs :
          /\ slider' = action(slider, mouse_x)
          /\ log' = [log EXCEPT !.moves = MinOf(@ + 1, 2), !.last_x = << mouse_x >>,
                                !.after_drop = "none"]
    /\ UNCHANGED << vars, call >>

\* The thumb (a Button) is pressed.
Press ==
    /\ slider.phase = "ready"
    /\ ~slider.pressed
    /\ slider' = [slider EXCEPT !.pressed = TRUE]
    /\ log' = [log EXCEPT !.after_drop = IF @ = "dropped" THEN "pressed" ELSE "none"]
    /\ UNCHANGED << vars, call >>

\* The thumb is released.
Release ==
    /\ slider.phase = "ready"
    /\ slider.pressed
    /\ slider' = [slider EXCEPT !.pressed = FALSE]
    /\ log' = [log EXCEPT !.after_drop = "none"]
    /\ UNCHANGED << vars, call >>

\* The framework calls update_post_layout after a layout pass.
UpdatePostLayout ==
    /\ slider.phase = "ready"
    /\ log.updates < MaxUpdates
    /\ slider' = update_post_layout(slider)
    /\ log' = [log EXCEPT
                 !.updates = @ + 1, !.moves = 0, !.last_x = <<>>, !.used = log.moves,
                 !.after_drop =
                     IF slider.action # <<>> /\ ~slider.pressed THEN "dropped"
                     ELSE IF slider.action = <<>> /\ slider.pressed
                             /\ @ \in {"pressed", "updated"} THEN "updated"
                     ELSE IF slider.action = <<>> /\ @ = "dropped" THEN "dropped"
                     ELSE "none"]
    /\ UNCHANGED << vars, call >>

NextSlider ==
    \/ SliderInit
    \/ MouseMove
    \/ Press
    \/ Release
    \/ UpdatePostLayout

SpecSlider == InitSlider /\ [][NextSlider]_allVars

\* ------------------------------------------------- shared predicates

Entities == DOMAIN world

Size(e) == << world[e].Rect.width, world[e].Rect.height >>

\* The Layout pass of the run in progress has completed.
LayoutDone == pc \in {"system", "render"} /\ "LayoutEnd" \in Range(trace)

\* The Render pass of the run in progress has completed.
RenderDone == pc = "system" /\ "RenderEnd" \in Range(trace)

\* Every system of the run in progress has been executed.
RunDone == pc = "system" /\ sysIdx > Len(Schedule)

\* e belongs to the hierarchy under the tree's root.
InRootTree(e) ==
    /\ tree.root # <<>>
    /\ \/ e = tree.root[1]
       \/ IsAncestor(tree, tree.root[1], e, Cardinality(Nodes(tree)))

TemplateRoots == {templates[i].entity : i \in DOMAIN templates}

DrawnEntities == [i \in DOMAIN draws |-> draws[i].entity]

\* The position of child c in the children list of p, 0 when absent.
ChildIndex(p, c) ==
    IF \E i \in DOMAIN tree.children[p] : tree.children[p][i] = c
    THEN CHOOSE i \in DOMAIN tree.children[p] : tree.children[p][i] = c
    ELSE 0

PhaseOrder == << "FilterSort", "LayoutStart", "LayoutEnd", "RenderStart", "RenderEnd" >>

\* The phases of a run happen in the order filter+sort, Layout, Render, and
\* nothing is drawn before the Layout pass has completed.
RunPhasesInOrder ==
    /\ Len(trace) <= Len(PhaseOrder)
    /\ trace = SubSeq(PhaseOrder, 1, Len(trace))
    /\ (pc # "idle" => trace # <<>>)
    /\ (pc = "layout" <=> (stack # <<>>))
    /\ (draws # <<>> => "LayoutEnd" \in Range(trace))

\* expand never receives an Err from append_child: each child is a freshly
\* created, registered and parentless node, and its parent is registered.
\* The case of C10 (append_child fails during the expansion) is therefore
\* not reachable through root().
AppendNeverFails == append_errors = 0

\* ------------------------------------------------------------- claims

\* C1: for every tree in which every entity uses the default layout function
\* and for every constraints value, one Layout pass ends with exactly one
\* final size recorded on every entity of the root's tree (second and later
\* children of a multi-child container included) and no negotiation open.
C1_EveryEntitySized ==
    LayoutDone =>
        /\ stack = <<>>
        /\ \A e \in Entities : InRootTree(e) => Count(e) = 1

\* C2: in every run() the filter+sort phase precedes every pass, the Layout
\* pass completes before the Render pass starts, and the geometry Render
\* reads for each entity is the geometry the Layout pass of this run wrote
\* (stated for the entities of the root's tree, the ones a Layout pass
\* starting at the root can reach).
C2_RenderReadsThisRunsLayout ==
    /\ RunPhasesInOrder
    /\ \A i \in DOMAIN draws :
          InRootTree(draws[i].entity) =>
              /\ Count(draws[i].entity) >= 1
              /\ draws[i].rect = world[draws[i].entity].Rect

RECURSIVE Matches(_, _)
\* The node of entity e has the shape of widget w: as many children as the
\* template declares, in the declared order, each with e as its parent.
Matches(w, e) ==
    /\ e \in Nodes(tree)
    /\ world[e].Drawable = w.drawable
    /\ Len(tree.children[e]) = Len(w.children)
    /\ \A i \in DOMAIN w.children :
          /\ tree.children[e][i] \in Nodes(tree)
          /\ tree.parent[tree.children[e][i]] = <<e>>
          /\ Matches(w.children[i], tree.children[e][i])

\* C3: after root() expands any template, every entity other than a template
\* root has exactly one parent, the entity of the enclosing template node;
\* each child is listed exactly once by its parent, in declaration order; no
\* entity is its own ancestor.
C3_TreeMatchesTemplates ==
    /\ Nodes(tree) = Entities
    /\ \A i \in DOMAIN templates : Matches(templates[i].widget, templates[i].entity)
    /\ \A e \in Entities \ TemplateRoots :
          /\ tree.parent[e] # <<>>
          /\ tree.parent[e][1] \in Entities
          /\ Cardinality({pi \in Entities \X (1..Cardinality(Entities)) :
                            /\ pi[2] \in DOMAIN tree.children[pi[1]]
                            /\ tree.children[pi[1]][pi[2]] = e}) = 1
          /\ ChildIndex(tree.parent[e][1], e) # 0
    /\ \A e \in Entities : ~IsAncestor(tree, e, e, Cardinality(Entities))

\* C3 witness: a nested template was expanded (a container with two
\* children, one of which has a child of its own).
C3_Witness ==
    \E e \in Entities :
        /\ Len(tree.children[e]) >= 2
        /\ \E i \in DOMAIN tree.children[e] : tree.children[tree.children[e][i]] # <<>>

\* C4: after any sequence of root() calls the tree has exactly one parentless
\* node, the first node registered.
C4_SingleParentlessNode ==
    templates # <<>> =>
        {e \in Nodes(tree) : tree.parent[e] = <<>>} = {templates[1].entity}

\* C5: a container with the default layout function and exactly one child,
\* laid out without a forced size, ends with the size resolved for its child
\* under the same constraints, and the position map holds (0,0) for the child.
C5_PassThrough ==
    LayoutDone =>
        \A e \in Entities :
            (world[e].Layout = "default" /\ Len(tree.children[e]) = 1 /\ Count(e) >= 1) =>
                LET c == tree.children[e][1]
                IN  /\ Count(c) = 1
                    /\ Size(e) = Size(c)
                    /\ c \in DOMAIN children_pos
                    /\ children_pos[c] = <<0, 0>>

\* C5 witness: a single-child container below the root was laid out and took
\* its child's size, which differs from the size entities start with.
C5_Witness ==
    /\ LayoutDone
    /\ \E e \in Entities :
          /\ tree.parent[e] # <<>>
          /\ Len(tree.children[e]) = 1
          /\ Count(e) = 1
          /\ Size(e) = Size(tree.children[e][1])
          /\ Size(e) # << DefaultRect.width, DefaultRect.height >>

\* The layout function on top of the chain requests an entity on the chain.
CycleRequested ==
    /\ pc = "layout"
    /\ stack # <<>>
    /\ LET top == stack[Len(stack)]
           res == LayoutFn(world[top.entity].Layout, top.entity, top.bc,
                           tree.children[top.entity], children_pos, top.size)
       IN  /\ res.kind = "RequestChild"
           /\ \E i \in DOMAIN stack : stack[i].entity = res.child[1]

ChainHasNoRepeat ==
    \A i \in DOMAIN stack : \A j \in DOMAIN stack : i # j => stack[i].entity # stack[j].entity

\* C6: when a layout function requests its own entity or an entity on the
\* active request chain, the Layout pass ends in LayoutCycle: the chain never
\* holds an entity twice (its depth is bounded by the number of entities) and
\* the step that sees the request ends the run with LayoutCycle.
C6_CycleFails ==
    /\ []ChainHasNoRepeat
    /\ [][CycleRequested => (outcome' = "LayoutCycle" /\ pc' = "idle" /\ stack' = <<>>)]_vars

\* C6 witness: a run ended in LayoutCycle below the root (the request came
\* from an entity other than the root).
C6_Witness ==
    /\ outcome = "LayoutCycle"
    /\ pc = "idle"
    /\ tree.root # <<>>
    /\ world[tree.root[1]].Layout = "default"

\* C7: after apply_filter_and_sort the Render view holds exactly the entities
\* with a Drawable, each once, in strictly ascending creation-order id, which
\* is the order in which root() created them.
C7_ViewIsDrawablesInOrder ==
    pc # "idle" =>
        /\ Range(view) = {e \in Entities : world[e].Drawable}
        /\ \A i \in DOMAIN view : \A j \in DOMAIN view :
              i < j => /\ world[view[i]].EntityId # <<>>
                       /\ world[view[j]].EntityId # <<>>
                       /\ world[view[i]].EntityId[1] < world[view[j]].EntityId[1]
                       /\ view[i] < view[j]

\* C7 witness: a view of two entities that leaves out an entity created
\* between them.
C7_Witness ==
    /\ pc # "idle"
    /\ Len(view) = 2
    /\ \E e \in Entities : ~world[e].Drawable /\ view[1] < e /\ e < view[2]

\* C8: for every two entities the Render filter admits, the Render comparator
\* returns an ordering, never None.
C8_AdmittedAreComparable ==
    /\ outcome # "OrderingError"
    /\ \A a \in Entities : \A b \in Entities :
          (RenderFilter(world[a]) /\ RenderFilter(world[b])) =>
              RenderSort(world[a], world[b]) # <<>>

\* C8 witness: the filter admits two entities and the comparator orders them.
C8_Witness ==
    \E a \in Entities : \E b \in Entities :
        /\ a # b
        /\ RenderFilter(world[a]) /\ RenderFilter(world[b])
        /\ RenderSort(world[a], world[b]) = <<"Less">>
        /\ \E c \in Entities : ~RenderFilter(world[c])

TwoLevelTemplate ==
    Declared(Widget("default", TRUE, "Single", << Widget("default", TRUE, "Leaf", <<>>) >>))

\* C9: the Render pass draws each entity of its view once and no other, in
\* ascending creation-order id: an ancestor before its descendants, an
\* earlier sibling before a later one; a two-level template of two drawables
\* gives exactly two draw calls, the container first.
C9_OneDrawPerEntityInOrder ==
    /\ (draws # <<>> => pc \in {"render", "system"})
    /\ \A i \in DOMAIN draws : \A j \in DOMAIN draws :
          i < j => /\ draws[i].entity # draws[j].entity
                   /\ world[draws[i].entity].EntityId[1] < world[draws[j].entity].EntityId[1]
                   /\ ~IsAncestor(tree, draws[j].entity, draws[i].entity, Cardinality(Entities))
                   /\ (/\ tree.parent[draws[i].entity] # <<>>
                       /\ tree.parent[draws[i].entity] = tree.parent[draws[j].entity])
                      => ChildIndex(tree.parent[draws[i].entity][1], draws[i].entity)
                           < ChildIndex(tree.parent[draws[j].entity][1], draws[j].entity)
    /\ Range(DrawnEntities) \subseteq {e \in Entities : world[e].Drawable}
    /\ RenderDone =>
          /\ Range(DrawnEntities) = {e \in Entities : world[e].Drawable}
          /\ Len(draws) = Cardinality({e \in Entities : world[e].Drawable})
    /\ (RenderDone /\ templates = << [widget |-> TwoLevelTemplate, entity |-> 0] >>) =>
          /\ Len(draws) = 2
          /\ draws[1].entity = 0
          /\ tree.parent[draws[2].entity] = <<0>>

\* C9 witness: the two-level template was expanded and rendered.
C9_Witness ==
    /\ RenderDone
    /\ templates = << [widget |-> TwoLevelTemplate, entity |-> 0] >>
    /\ Len(draws) = 2

\* C9, second witness: siblings and a grandchild were drawn.
C9_WitnessSiblings ==
    /\ RenderDone
    /\ Len(draws) = 4
    /\ \E i \in DOMAIN draws : \E j \in DOMAIN draws :
          /\ i < j
          /\ tree.parent[draws[i].entity] # <<>>
          /\ tree.parent[draws[i].entity] = tree.parent[draws[j].entity]
          /\ tree.children[draws[i].entity] # <<>>

\* C12: on integer arguments with 0 <= thumb_width <= track_width,
\* calculate_thumb_x returns mouse_x - slider_x - thumb_width clamped to
\* [0, track_width - thumb_width]: 0 when the mouse is left of the track,
\* track_width - thumb_width when it is right of it, never a value outside.
C12_ThumbXClamped ==
    call.fn = "calculate_thumb_x" =>
        LET a == call.args
            raw == a.mouse_x - a.slider_x - a.thumb_width
            hi == a.track_width - a.thumb_width
        IN  /\ 0 <= call.result /\ call.result <= hi
            /\ (raw < 0 => call.result = 0)
            /\ (raw > hi => call.result = hi)
            /\ ((0 <= raw /\ raw <= hi) => call.result = raw)
            /\ (a.mouse_x < a.slider_x => call.result = 0)
            /\ (a.mouse_x > a.slider_x + a.track_width => call.result = hi)

\* C12 witness: the mouse is right of the track of a slider whose thumb has
\* a width, and the result is the upper end of the interval.
C12_Witness ==
    /\ call.fn = "calculate_thumb_x"
    /\ call.args.thumb_width > 0
    /\ call.args.thumb_width < call.args.track_width
    /\ call.args.mouse_x > call.args.slider_x + call.args.track_width
    /\ call.result = call.args.track_width - call.args.thumb_width

\* What C13 says of calculate_value apart from its value at the upper end:
\* 0 at thumb_x = 0, non-decreasing in thumb_x, and unchanged when minimum
\* and maximum are shifted by the same amount.
ValueZeroMonotoneShift ==
    LET a == call.args
    IN  /\ (a.thumb_x = 0 => call.result = 0)
        /\ \A x \in 0..a.thumb_x :
              calculate_value(x, a.minimum, a.maximum, a.thumb_width, a.track_width)
                  <= call.result
        /\ \A k \in {0 - 3, 0 - 1, 1, 2} :
              calculate_value(a.thumb_x, a.minimum + k, a.maximum + k,
                              a.thumb_width, a.track_width) = call.result

\* C13 as stated: for track_width > thumb_width and minimum <= maximum,
\* calculate_value returns 0 at thumb_x = 0 and maximum - minimum at
\* thumb_x = track_width - thumb_width, is non-decreasing in thumb_x and
\* depends on minimum and maximum only through their difference.
C13_Original ==
    call.fn = "calculate_value" =>
        /\ ValueZeroMonotoneShift
        /\ (call.args.thumb_x = call.args.track_width - call.args.thumb_width
               => 2 * call.result = call.args.maximum - call.args.minimum)

\* C13 amended: at thumb_x = track_width - thumb_width the result is
\* maximum - minimum rounded to the nearest integer, half away from zero
\* (maximum - minimum itself when the span is an integer); the rest as stated.
C13_ValueRoundedSpan ==
    call.fn = "calculate_value" =>
        /\ ValueZeroMonotoneShift
        /\ (call.args.thumb_x = call.args.track_width - call.args.thumb_width
               => call.result = RoundDiv(call.args.maximum - call.args.minimum, 2))

\* C13 witness: the thumb is at the upper end of a range whose span is 1.5,
\* and the result is 2.
C13_Witness ==
    /\ call.fn = "calculate_value"
    /\ call.args.thumb_x = call.args.track_width - call.args.thumb_width
    /\ call.args.maximum - call.args.minimum = 3
    /\ call.result = 2

\* C15: with a forced size the default layout function returns Size of that
\* size for every children list: with a child it records (0,0) for the first
\* child, with no children it writes no position and still returns the size.
C15_ForcedSizeReturned ==
    (call.fn = "layout" /\ call.args.size # <<>>) =>
        /\ call.result.kind = "Size"
        /\ call.result.size = call.args.size[1]
        /\ (call.args.children # <<>> =>
               call.result.children_pos
                   = Put(call.args.children_pos, call.args.children[1], <<0, 0>>))
        /\ (call.args.children = <<>> =>
               call.result.children_pos = call.args.children_pos)

\* C16: without a forced size the default layout function returns
\* Size(min_width, min_height) for an empty children list and
\* RequestChild(child, constraints), the constraints unchanged, only for a
\* list of exactly one child; it never writes to the position map.
C16_RequestOnlySoleChild ==
    (call.fn = "layout" /\ call.args.size = <<>>) =>
        /\ (call.args.children = <<>> =>
               /\ call.result.kind = "Size"
               /\ call.result.size = << call.args.bc.min_width, call.args.bc.min_height >>)
        /\ (Len(call.args.children) = 1 =>
               /\ call.result.kind = "RequestChild"
               /\ call.result.child = << call.args.children[1] >>
               /\ call.result.bc = << call.args.bc >>)
        /\ (call.result.kind = "RequestChild" => Len(call.args.children) = 1)
        /\ call.result.children_pos = call.args.children_pos

\* C11: whenever update_post_layout has handled a Move with the thumb
\* pressed, the value it stored lies within [minimum, maximum] (minimum and
\* maximum are in halves, the value in units).
C11_ValueWithinRange ==
    (slider.phase = "ready" /\ slider.events > 0) =>
        /\ slider.minimum <= 2 * slider.value
        /\ 2 * slider.value <= slider.maximum

\* C14: init fails whenever the lookup of 'thumb' or of 'track' finds
\* nothing; when it succeeds, thumb and track hold the entities found, and
\* neither is left at Entity::default().
C14_InitFailsOrBindsBoth ==
    /\ (slider.phase = "new" => ~log.inited)
    /\ (slider.phase \in {"ready", "failed"} =>
          /\ log.inited
          /\ ((log.thumb_found = <<>> \/ log.track_found = <<>>)
                 <=> slider.phase = "failed")
          /\ (slider.phase = "ready" =>
                 /\ << slider.thumb >> = log.thumb_found
                 /\ << slider.track >> = log.track_found
                 /\ slider.thumb # 0
                 /\ slider.track # 0))

\* C14 witness: init found the thumb, did not find the track, and failed.
C14_Witness ==
    /\ log.inited
    /\ log.thumb_found # <<>>
    /\ log.track_found = <<>>
    /\ slider.phase = "failed"

\* The entities of the subtree of e: e and its descendants.
Subtree(e) ==
    {e} \cup { d \in Nodes(tree) : IsAncestor(tree, e, d, Cardinality(Nodes(tree))) }

Id(e) == world[e].EntityId[1]

\* The ids are distinct and in pre-order, and the counter counts the entities.
IdsInPreOrder ==
    /\ entity_counter = Cardinality(Entities)
    /\ \A e \in Entities : world[e].EntityId # <<>>
    /\ \A a \in Entities : \A b \in Entities : (a # b => Id(a) # Id(b))
    /\ \A a \in Entities : \A d \in Subtree(a) : (d # a => Id(a) < Id(d))
    /\ \A p \in Entities : \A i \in DOMAIN tree.children[p] : \A j \in DOMAIN tree.children[p] :
          i < j => \A x \in Subtree(tree.children[p][i]) :
                   \A y \in Subtree(tree.children[p][j]) : Id(x) < Id(y)

\* The counter does not decrease, and an entity keeps its id.
IdsKept ==
    /\ entity_counter' >= entity_counter
    /\ \A e \in Entities : e \in DOMAIN world' /\ world'[e].EntityId = world[e].EntityId

\* C17: after any sequence of root() calls the EntityIds are pairwise
\* distinct and in pre-order of the template traversal (an entity before
\* its descendants, an earlier sibling's subtree before a later sibling's),
\* entity_counter is the number of entities created, the counter never
\* decreases and no id is given twice.
C17_IdsDistinctPreOrder == [](IdsInPreOrder) /\ [][IdsKept]_vars

\* C17 witness: an entity has two children, the first of which has a child
\* of its own.
C17_Witness ==
    \E p \in Entities :
        /\ Len(tree.children[p]) >= 2
        /\ tree.children[tree.children[p][1]] # <<>>

\* C18: each update_post_layout pushes at most one ChangedEvent, and only
\* when a mouse move arrived since the previous update and the thumb is
\* pressed; the value and the margin it stores come from the last mouse_x;
\* after every update the pending action is None.
C18_OneEventFromLastMove ==
    [][ (slider.phase = "ready" /\ log'.updates = log.updates + 1) =>
           /\ slider'.events \in {slider.events, slider.events + 1}
           /\ (slider'.events = slider.events + 1 =>
                  /\ log.moves >= 1
                  /\ log.last_x # <<>>
                  /\ slider.pressed
                  /\ LET thumb_x == calculate_thumb_x(log.last_x[1], slider.thumb_width,
                                                      slider.slider_x, slider.track_width)
                     IN  /\ slider'.margin_left = thumb_x
                         /\ slider'.value = calculate_value(thumb_x, slider.minimum,
                                                            slider.maximum, slider.thumb_width,
                                                            slider.track_width))
           /\ slider'.action = <<>>
      ]_allVars

\* C18 witness: two or more mouse moves arrived before the first update,
\* and that update pushed one event.
C18_Witness ==
    /\ slider.phase = "ready"
    /\ log.updates = 1
    /\ log.used = 2
    /\ slider.events = 1

\* C19: an update_post_layout with no pending action, or with a pending
\* Move while the thumb is not pressed, leaves the value, the thumb's left
\* margin and the events unchanged and leaves no pending action; pressing
\* the thumb changes nothing but 'pressed', so an update after a discarded
\* move and a press changes nothing.
C19_NothingWithoutPressedMove ==
    [][ slider.phase = "ready" =>
           /\ (log'.updates = log.updates + 1 /\ (slider.action = <<>> \/ ~slider.pressed)) =>
                  /\ slider'.value = slider.value
                  /\ slider'.margin_left = slider.margin_left
                  /\ slider'.events = slider.events
                  /\ slider'.action = <<>>
           /\ (slider'.pressed # slider.pressed) =>
                  slider' = [slider EXCEPT !.pressed = slider'.pressed]
           /\ (log'.after_drop = "updated" =>
                  /\ slider.pressed
                  /\ slider' = slider)
      ]_allVars

\* C19 witness: an update discarded a move of the released thumb, the thumb
\* was then pressed, and the next update ran with no event pushed so far.
C19_Witness ==
    /\ slider.phase = "ready"
    /\ log.after_drop = "updated"
    /\ slider.pressed
    /\ slider.events = 0
    /\ slider.value = 0

====
